---- MODULE Spec2Model ----
(***************************************************************************)
(* EchoLingua (src/echolingua-ai/App.tsx): the TranslationView component.  *)
(* The state is the component's React state and reference cells, the       *)
(* browser resources they point to, and the suspended continuations of its *)
(* async handlers.  One action per handler, callback or continuation.      *)
(***************************************************************************)
EXTENDS Integers, Sequences, FiniteSets, TLC

\* ---------------------------------------------------------------- bounds
\* handleStartSession calls in one behaviour
MaxStarts == 2
\* handleStopSession calls suspended on one pending handshake
MaxWaiters == 2
\* handleStartSession calls in one behaviour with audio traffic
MaxPlaybackStarts == 1
\* audio source nodes created in one behaviour
MaxChunks == 2
\* message handlers suspended at the decode await at one time
MaxPending == 2
\* readings of the output context's clock
MaxClock == 2
\* characters held by the utterance buffer
MaxTextLen == 2
\* committed transcript entries
MaxTranscripts == 2
\* handleAnalyze calls, and handleSpeak calls, that issue a request
MaxCalls == 2
\* samples in one array given to createBlob
MaxSamples == 2
\* sample values between two neighbouring 16-bit steps, plus one
Resolution == 2

\* ---------------------------------------------------------------- values
\* a null reference cell
Null == 0
Attempts == 1..MaxStarts
\* settings.playbackRate values and AudioBuffer durations (clock units); every
\* duration is a multiple of every rate, so duration / rate is exact
Rates == {1, 2}
Durations == {2, 4}
NoAudio == 0
\* recognized texts, of a letter and a blank
TextParts == {<<>>, <<"a">>, <<" ">>}
NoMsg == [text |-> <<>>, turnComplete |-> FALSE, audio |-> NoAudio, interrupted |-> FALSE]
Messages == [text : TextParts, turnComplete : BOOLEAN, audio : Durations \cup {NoAudio}, interrupted : BOOLEAN]
TextMessages == {m \in Messages : m.audio = NoAudio /\ ~m.interrupted /\ m # NoMsg}
AudioMessages == {m \in Messages : m.text = <<>> /\ ~m.turnComplete /\ m # NoMsg}

VARIABLES
    localStorage,           \* the item 'echoLinguaSettings' of localStorage
    prefersDarkMode,        \* matchMedia('(prefers-color-scheme: dark)').matches
    settings,               \* useState of App, line 590; the settings prop of both views
    sessionSettings,        \* the settings the callbacks of the latest start closed over
    textToSpeak,            \* useState of App, line 593
    isAnalyzing,            \* useState, line 145
    analysis,               \* useState, line 146
    isSpeaking,             \* useState, line 147
    audioContextRef,        \* line 148
    analyses,               \* handleAnalyze calls that got past line 155
    speaks,                 \* handleSpeak calls that got past line 199
    codec,                  \* a sample array on its way through createBlob and back
    mounted,                \* TranslationView is mounted
    isSessionActive,        \* useState, line 341
    cleanupPending,         \* the [isSessionActive] effect's cleanup is due
    transcripts,            \* useState, line 342
    interimTranscript,      \* useState, line 343
    sessionPromiseRef,      \* line 345: Null or the attempt whose connect() it holds
    inputAudioContextRef,   \* line 346
    outputAudioContextRef,  \* line 347
    microphoneStreamRef,    \* line 348
    scriptProcessorRef,     \* line 349
    nextStartTimeRef,       \* line 350
    audioSourcesRef,        \* line 351
    currentTextRef,         \* line 352
    attempts,               \* handleStartSession calls so far
    micPending,             \* attempts suspended at getUserMedia
    promiseState,           \* per attempt: state of the promise connect() returned
    live,                   \* browser resources alive, per kind a set of attempts
    awaiting,               \* continuations suspended on a pending promise
    microtasks,             \* continuations ready to run, first in first out
    alerts,                 \* alert() calls so far
    clock,                  \* outputAudioContext.currentTime
    nodes,                  \* per source node created: its start, end and fate
    schedule,               \* chunks started since the cursor was last reset
    run,                    \* bookkeeping of the current uninterrupted run
    stopRun,                \* the calls made by the latest stop continuation
    stopIssued,             \* the user pressed stop since the latest start
    ev                      \* the latest handler that ran, and its message

refVars == <<sessionPromiseRef, inputAudioContextRef, outputAudioContextRef,
             microphoneStreamRef, scriptProcessorRef>>
textVars == <<transcripts, interimTranscript, currentTextRef>>
audioVars == <<nextStartTimeRef, audioSourcesRef, clock, nodes, schedule, run>>
practiceVars == <<textToSpeak, isAnalyzing, analysis, isSpeaking, audioContextRef,
                 analyses, speaks>>
\* what no handler of TranslationView writes
others == <<localStorage, prefersDarkMode, practiceVars, codec>>
vars == <<others, sessionSettings, mounted, settings, isSessionActive, cleanupPending, refVars, textVars,
          audioVars, attempts, micPending, promiseState, live, awaiting,
          microtasks, alerts, stopRun, stopIssued, ev>>

\* ---------------------------------------------------------------- helpers
Max(a, b) == IF a >= b THEN a ELSE b

\* The latest handler, its message, and for an interrupt the size of the active
\* set it met.
Event(k) == [k |-> k, m |-> NoMsg, n |-> 0]

NoLive == [session |-> {}, mic |-> {}, processor |-> {}, inputCtx |-> {}, outputCtx |-> {}]

NoRun == [sum |-> 0, clockAhead |-> FALSE]

NoStopRun == [onLive |-> FALSE, promise |-> "none", ops |-> <<>>]

\* ---------------------------------------------------------------- settings
\* A field of the stored record after JSON.parse: a number, a value of another
\* type, or no such field.
NumberField(v) == [type |-> "number", v |-> v]
NumberFields == {NumberField(v) : v \in Rates} \cup {[type |-> "string", v |-> 0], [type |-> "missing", v |-> 0]}
\* the theme field: a string, "missing" for no such field
ThemeFields == {"light", "dark", "blue", "missing"}

\* an item that is not the text of an object has no fields
NotAnObject(k) ==
    [kind |-> k, theme |-> "missing", volume |-> [type |-> "missing", v |-> 0],
     playbackRate |-> [type |-> "missing", v |-> 0]]

\* line 79: getItem gives null, an empty string, a text JSON.parse rejects, the
\* text "null", or the text of an object
StoredObjects ==
    {[kind |-> "object", theme |-> t, volume |-> v, playbackRate |-> r] :
        t \in ThemeFields, v \in NumberFields, r \in NumberFields}
StoredItems ==
    {NotAnObject(k) : k \in {"absent", "empty", "unparseable", "jsonNull"}} \cup StoredObjects

\* lines 77-98
getInitialSettings(item, dark) ==
    IF item.kind = "object"
    THEN [theme |-> IF item.theme = "dark" THEN "dark" ELSE "light",
          volume |-> IF item.volume.type = "number" THEN item.volume.v ELSE 1,
          playbackRate |-> IF item.playbackRate.type = "number" THEN item.playbackRate.v ELSE 1]
    ELSE [theme |-> IF dark THEN "dark" ELSE "light", volume |-> 1, playbackRate |-> 1]

\* App before its first render
NoSettings == [theme |-> "unset", volume |-> 0, playbackRate |-> 0]

NoCodec == [pc |-> "idle", data |-> <<>>, base64 |-> <<>>, bytes |-> <<>>, channelData |-> <<>>]

NoAnalysis == [kind |-> "null", fields |-> {}, correctedText |-> <<>>]

\* TextPracticeView after its first render
InitPractice ==
    /\ textToSpeak = <<>>
    /\ isAnalyzing = FALSE
    /\ analysis = NoAnalysis
    /\ isSpeaking = FALSE
    /\ audioContextRef = Null
    /\ analyses = <<>>
    /\ speaks = <<>>

\* TranslationView after its first render
InitTranslationView ==
    /\ mounted = TRUE
    /\ isSessionActive = FALSE
    /\ cleanupPending = FALSE
    /\ transcripts = <<>>
    /\ interimTranscript = <<>>
    /\ sessionPromiseRef = Null
    /\ inputAudioContextRef = Null
    /\ outputAudioContextRef = Null
    /\ microphoneStreamRef = Null
    /\ scriptProcessorRef = Null
    /\ nextStartTimeRef = 0
    /\ audioSourcesRef = {}
    /\ currentTextRef = <<>>
    /\ attempts = 0
    /\ micPending = {}
    /\ promiseState = [a \in Attempts |-> "none"]
    /\ live = NoLive
    /\ awaiting = <<>>
    /\ microtasks = <<>>
    /\ alerts = 0
    /\ clock = 0
    /\ nodes = <<>>
    /\ schedule = <<>>
    /\ run = NoRun
    /\ stopRun = NoStopRun
    /\ stopIssued = FALSE
    /\ ev = Event("init")

\* The app after its first render, started with a stored record that holds a
\* playback rate.
Init ==
    /\ localStorage \in {[kind |-> "object", theme |-> "light", volume |-> NumberField(1),
                           playbackRate |-> NumberField(r)] : r \in Rates}
    /\ prefersDarkMode = FALSE
    /\ settings = getInitialSettings(localStorage, prefersDarkMode)
    /\ sessionSettings = settings
    /\ codec = NoCodec
    /\ InitPractice
    /\ InitTranslationView

\* App before its first render, with any stored item and system preference.
InitSettings ==
    /\ localStorage \in StoredItems
    /\ prefersDarkMode \in BOOLEAN
    /\ settings = NoSettings
    /\ sessionSettings = NoSettings
    /\ codec = NoCodec
    /\ InitPractice
    /\ InitTranslationView

\* A click, a DOM event or a timer is a task: it runs only when no continuation
\* is ready.  The session's callbacks are called by the SDK, whose dispatch is
\* not part of the repository: they may run while continuations are ready.
TaskReady == microtasks = <<>>

\* ------------------------------------------------------------ audio helpers
\* lines 43 and 54: the factor between a float sample and a 16-bit integer
Scale == 32768
\* A float sample is written as the integer n that stands for n / Unit.
Unit == Scale * Resolution
\* sample values in [-1, 1]: the two ends, their neighbours, and values around 0
Samples == {-Unit, 1 - Unit, -(Resolution + 1), -1, 0, 1, Resolution + 1, Unit - 1, Unit}
SampleArrays == UNION {[1..n -> Samples] : n \in 0..MaxSamples}

\* the integer part of n / d
Trunc(n, d) == IF n >= 0 THEN n \div d ELSE -((-n) \div d)

\* a store that saturates at the ends of the 16-bit range
ToInt16Clamped(x) == IF x > 32767 THEN 32767 ELSE IF x < -32768 THEN -32768 ELSE x

\* line 54: a number stored into an Int16Array is truncated and wrapped to 16 bits
ToInt16(x) == ((x + 32768) % 65536) - 32768

\* lines 52-55: the Int16Array createBlob fills, data[i] * 32768 for each
\* sample; (n / Unit) * Scale is n / Resolution
RECURSIVE Int16Samples(_)
Int16Samples(data) ==
    IF data = <<>> THEN <<>>
    ELSE <<ToInt16(Trunc(Head(data), Resolution))>> \o Int16Samples(Tail(data))

\* line 57: new Uint8Array(int16.buffer), two bytes a sample, the low byte first
RECURSIVE Uint8Bytes(_)
Uint8Bytes(int16) ==
    IF int16 = <<>> THEN <<>>
    ELSE LET u == Head(int16) % 65536
         IN <<u % 256, u \div 256>> \o Uint8Bytes(Tail(int16))

\* the padding character of base64; the other characters are written 0..63
Pad == 64

\* line 25: btoa of the string whose character codes are the bytes
RECURSIVE btoa(_)
btoa(bs) ==
    IF bs = <<>> THEN <<>>
    ELSE IF Len(bs) = 1
         THEN <<bs[1] \div 4, (bs[1] % 4) * 16, Pad, Pad>>
         ELSE IF Len(bs) = 2
              THEN <<bs[1] \div 4, (bs[1] % 4) * 16 + bs[2] \div 16, (bs[2] % 16) * 4, Pad>>
              ELSE <<bs[1] \div 4, (bs[1] % 4) * 16 + bs[2] \div 16,
                     (bs[2] % 16) * 4 + bs[3] \div 64, bs[3] % 64>>
                   \o btoa(SubSeq(bs, 4, Len(bs)))

\* line 9: atob, giving the string whose character codes are the bytes
RECURSIVE atob(_)
atob(cs) ==
    IF cs = <<>> THEN <<>>
    ELSE LET b1 == cs[1] * 4 + cs[2] \div 16
             b2 == (cs[2] % 16) * 16 + cs[3] \div 4
             b3 == (cs[3] % 4) * 64 + cs[4]
         IN IF cs[3] = Pad THEN <<b1>>
            ELSE IF cs[4] = Pad THEN <<b1, b2>>
                 ELSE <<b1, b2, b3>> \o atob(SubSeq(cs, 5, Len(cs)))

\* lines 19-26
encode(bytes) == btoa(bytes)

\* lines 8-16
decode(base64) == atob(base64)

\* lines 50-60: the data field of the blob
createBlob(data) == encode(Uint8Bytes(Int16Samples(data)))

\* line 36: new Int16Array(data.buffer), the low byte first
RECURSIVE Int16Array(_)
Int16Array(bytes) ==
    IF Len(bytes) < 2 THEN <<>>
    ELSE <<ToInt16(bytes[1] + 256 * bytes[2])>> \o Int16Array(SubSeq(bytes, 3, Len(bytes)))

\* lines 30-47 with one channel: sample i is dataInt16[i] / 32768.0
decodeAudioData(bytes) ==
    LET dataInt16 == Int16Array(bytes)
    IN [i \in 1..Len(dataInt16) |-> dataInt16[i] * Resolution]

\* a sample array about to be given to createBlob
InitCodec ==
    /\ localStorage = NotAnObject("absent")
    /\ prefersDarkMode = FALSE
    /\ settings = getInitialSettings(localStorage, prefersDarkMode)
    /\ sessionSettings = settings
    /\ codec \in {[NoCodec EXCEPT !.pc = "input", !.data = d] : d \in SampleArrays}
    /\ InitPractice
    /\ InitTranslationView

\* line 420
CreateBlob ==
    /\ codec.pc = "input"
    /\ codec' = [codec EXCEPT !.pc = "encoded", !.base64 = createBlob(codec.data)]
    /\ ev' = Event("createBlob")
    /\ UNCHANGED <<localStorage, prefersDarkMode, practiceVars, sessionSettings, mounted,
                   settings, isSessionActive, cleanupPending, refVars, textVars, audioVars,
                   attempts, micPending, promiseState, live, awaiting, microtasks, alerts,
                   stopRun, stopIssued>>

\* line 449: decode(base64Audio)
Decode ==
    /\ codec.pc = "encoded"
    /\ codec' = [codec EXCEPT !.pc = "decoded", !.bytes = decode(codec.base64)]
    /\ ev' = Event("decode")
    /\ UNCHANGED <<localStorage, prefersDarkMode, practiceVars, sessionSettings, mounted,
                   settings, isSessionActive, cleanupPending, refVars, textVars, audioVars,
                   attempts, micPending, promiseState, live, awaiting, microtasks, alerts,
                   stopRun, stopIssued>>

\* line 449: decodeAudioData(bytes, ctx, 24000, 1)
DecodeAudioData ==
    /\ codec.pc = "decoded"
    /\ codec' = [codec EXCEPT !.pc = "done", !.channelData = decodeAudioData(codec.bytes)]
    /\ ev' = Event("decodeAudioData")
    /\ UNCHANGED <<localStorage, prefersDarkMode, practiceVars, sessionSettings, mounted,
                   settings, isSessionActive, cleanupPending, refVars, textVars, audioVars,
                   attempts, micPending, promiseState, live, awaiting, microtasks, alerts,
                   stopRun, stopIssued>>

NextCodec == CreateBlob \/ Decode \/ DecodeAudioData

SpecCodec == InitCodec /\ [][NextCodec]_vars

\* sample values outside [-1, 1], which an input buffer may hold: just outside
\* either end, around 2 and -2, and at 3
LoudSamples ==
    {Unit + Resolution, -(Unit + Resolution), 2 * Unit - 1, 2 * Unit, 2 * Unit + Resolution,
     -(2 * Unit), -(2 * Unit + Resolution), 3 * Unit}
AnySampleArrays == UNION {[1..n -> Samples \cup LoudSamples] : n \in 0..MaxSamples}

\* a sample array of any loudness about to be given to createBlob
InitLoud ==
    /\ localStorage = NotAnObject("absent")
    /\ prefersDarkMode = FALSE
    /\ settings = getInitialSettings(localStorage, prefersDarkMode)
    /\ sessionSettings = settings
    /\ codec \in {[NoCodec EXCEPT !.pc = "input", !.data = d] : d \in AnySampleArrays}
    /\ InitPractice
    /\ InitTranslationView

SpecLoud == InitLoud /\ [][NextCodec]_vars

\* -------------------------------------------------------------------- App
\* line 590: the first render initialises the settings state
AppStart ==
    /\ settings = NoSettings
    /\ settings' = getInitialSettings(localStorage, prefersDarkMode)
    /\ ev' = Event("appStart")
    /\ UNCHANGED <<others, sessionSettings, mounted, isSessionActive, cleanupPending,
                   refVars, textVars, audioVars, attempts, micPending, promiseState, live,
                   awaiting, microtasks, alerts, stopRun, stopIssued>>

\* line 607: the header button, the one caller of setSettings
ToggleTheme ==
    /\ TaskReady
    /\ settings # NoSettings
    /\ settings' = [settings EXCEPT !.theme = IF @ = "light" THEN "dark" ELSE "light"]
    /\ ev' = Event("toggleTheme")
    /\ UNCHANGED <<others, sessionSettings, mounted, isSessionActive, cleanupPending,
                   refVars, textVars, audioVars, attempts, micPending, promiseState, live,
                   awaiting, microtasks, alerts, stopRun, stopIssued>>

NextSettings == AppStart \/ ToggleTheme

SpecSettings == InitSettings /\ [][NextSettings]_vars

\* ------------------------------------------------------- handleStopSession
\* a promise that has neither resolved nor rejected
Unsettled == {"pending", "hung"}

\* handleStopSession without the early return of line 362
StopCallUnguarded ==
    IF sessionPromiseRef # Null /\ promiseState[sessionPromiseRef] \in Unsettled
    THEN /\ awaiting' = Append(awaiting, [k |-> "stop", s |-> sessionPromiseRef, m |-> NoMsg])
         /\ UNCHANGED microtasks
    ELSE /\ microtasks' = Append(microtasks, [k |-> "stop", s |-> sessionPromiseRef, m |-> NoMsg])
         /\ UNCHANGED awaiting

\* lines 362-365: return when there is no session promise, else await it.  A
\* settled promise resumes the call in a microtask, a pending one when it settles.
StopCall ==
    IF sessionPromiseRef = Null
    THEN UNCHANGED <<awaiting, microtasks>>
    ELSE IF promiseState[sessionPromiseRef] \in Unsettled
         THEN /\ awaiting' = Append(awaiting, [k |-> "stop", s |-> sessionPromiseRef, m |-> NoMsg])
              /\ UNCHANGED microtasks
         ELSE /\ microtasks' = Append(microtasks, [k |-> "stop", s |-> sessionPromiseRef, m |-> NoMsg])
              /\ UNCHANGED awaiting

CanStop == Len(awaiting) < MaxWaiters /\ Len(microtasks) < MaxWaiters

\* The cells and resources the continuation works on, and the calls it makes.
StopState ==
    [session |-> sessionPromiseRef, mic |-> microphoneStreamRef,
     processor |-> scriptProcessorRef, inputCtx |-> inputAudioContextRef,
     outputCtx |-> outputAudioContextRef, live |-> live, ops |-> <<>>]

\* lines 365-368: session.close() on the awaited session; a rejected promise
\* throws at the await and is logged (its connection is gone already).
CloseSession(st, s) ==
    IF s # Null /\ promiseState[s] = "resolved"
    THEN [st EXCEPT !.live.session = @ \ {s}, !.ops = Append(@, "session.close")]
    ELSE [st EXCEPT !.ops = Append(@, "console.error")]

\* line 370
StopTracks(st) ==
    IF st.mic = Null THEN st
    ELSE [st EXCEPT !.live.mic = @ \ {st.mic}, !.ops = Append(@, "track.stop")]

\* line 371
DisconnectProcessor(st) ==
    IF st.processor = Null THEN st
    ELSE [st EXCEPT !.live.processor = @ \ {st.processor}, !.ops = Append(@, "processor.disconnect")]

\* line 372
CloseInputContext(st) ==
    IF st.inputCtx = Null THEN st
    ELSE [st EXCEPT !.live.inputCtx = @ \ {st.inputCtx}, !.ops = Append(@, "inputCtx.close")]

\* line 373
CloseOutputContext(st) ==
    IF st.outputCtx = Null THEN st
    ELSE [st EXCEPT !.live.outputCtx = @ \ {st.outputCtx}, !.ops = Append(@, "outputCtx.close")]

\* a finally block that leaves the two context cells set
NullRefsKeepsContexts(st) ==
    [st EXCEPT !.session = Null, !.mic = Null, !.processor = Null,
               !.ops = Append(@, "refs = null")]

\* lines 375-379
NullRefs(st) ==
    [st EXCEPT !.session = Null, !.mic = Null, !.processor = Null,
               !.inputCtx = Null, !.outputCtx = Null, !.ops = Append(@, "refs = null")]

\* the finally block with the cells nulled before the resources are released
FinallyReordered(st) ==
    CloseOutputContext(CloseInputContext(DisconnectProcessor(StopTracks(NullRefs(st)))))

\* lines 369-379: the finally block, up to the state update
Finally(st) ==
    NullRefs(CloseOutputContext(CloseInputContext(DisconnectProcessor(StopTracks(st)))))

\* lines 365-382: the continuation of one handleStopSession call
StopResume ==
    /\ microtasks # <<>>
    /\ Head(microtasks).k = "stop"
    /\ LET s == Head(microtasks).s
           st == Finally(CloseSession(StopState, s))
       IN /\ sessionPromiseRef' = st.session
          /\ microphoneStreamRef' = st.mic
          /\ scriptProcessorRef' = st.processor
          /\ inputAudioContextRef' = st.inputCtx
          /\ outputAudioContextRef' = st.outputCtx
          /\ live' = st.live
          /\ stopRun' = [onLive |-> (s # Null /\ sessionPromiseRef = s),
                         promise |-> IF s = Null THEN "none" ELSE promiseState[s],
                         ops |-> Append(st.ops, "setIsSessionActive(false)")]
    /\ isSessionActive' = FALSE
    /\ cleanupPending' = (cleanupPending \/ (isSessionActive /\ mounted))
    /\ microtasks' = Tail(microtasks)
    /\ ev' = Event("stopResume")
    /\ UNCHANGED <<others, sessionSettings, mounted, settings, textVars, audioVars, attempts, micPending,
                   promiseState, awaiting, alerts, stopIssued>>

\* ------------------------------------------------------ handleStartSession
\* line 565: the main button starts a session only when none is active
StartEnabled == ~isSessionActive

\* lines 386-392: up to the await of getUserMedia
UserStart ==
    /\ mounted /\ TaskReady /\ ~cleanupPending
    /\ StartEnabled
    /\ attempts < MaxStarts
    /\ isSessionActive' = TRUE
    /\ interimTranscript' = <<>>
    /\ currentTextRef' = <<>>
    /\ nextStartTimeRef' = 0
    /\ attempts' = attempts + 1
    /\ micPending' = micPending \cup {attempts + 1}
    /\ schedule' = <<>>
    /\ run' = NoRun
    /\ stopIssued' = FALSE
    /\ sessionSettings' = settings
    /\ ev' = Event("userStart")
    /\ UNCHANGED <<others, mounted, settings, cleanupPending, refVars, transcripts,
                   audioSourcesRef, clock, nodes, promiseState, live,
                   awaiting, microtasks, alerts, stopRun>>

\* lines 392-486: getUserMedia resolved; the stream and two new contexts are
\* stored and connect() is called, its promise stored without being awaited.
MicGranted(a) ==
    /\ a \in micPending
    /\ micPending' = micPending \ {a}
    /\ microphoneStreamRef' = a
    /\ inputAudioContextRef' = a
    /\ outputAudioContextRef' = a
    /\ sessionPromiseRef' = a
    /\ promiseState' = [promiseState EXCEPT ![a] = "pending"]
    /\ live' = [live EXCEPT !.mic = @ \cup {a}, !.inputCtx = @ \cup {a},
                            !.outputCtx = @ \cup {a}, !.session = @ \cup {a}]
    /\ clock' = 0
    /\ ev' = Event("micGranted")
    /\ UNCHANGED <<others, sessionSettings, mounted, settings, isSessionActive, cleanupPending, scriptProcessorRef,
                   textVars, nextStartTimeRef, audioSourcesRef, nodes, schedule, run,
                   attempts, awaiting, microtasks, alerts, stopRun, stopIssued>>

\* a catch block that alerts and leaves isSessionActive as it is
MicDeniedStaysActive(a) ==
    /\ a \in micPending
    /\ micPending' = micPending \ {a}
    /\ alerts' = alerts + 1
    /\ ev' = Event("micDenied")
    /\ UNCHANGED <<others, sessionSettings, mounted, settings, isSessionActive, cleanupPending, refVars, textVars,
                   audioVars, attempts, promiseState, live, awaiting, microtasks,
                   stopRun, stopIssued>>

\* lines 392, 488-492: getUserMedia rejected
MicDenied(a) ==
    /\ a \in micPending
    /\ micPending' = micPending \ {a}
    /\ alerts' = alerts + 1
    /\ isSessionActive' = FALSE
    /\ cleanupPending' = (cleanupPending \/ (isSessionActive /\ mounted))
    /\ ev' = Event("micDenied")
    /\ UNCHANGED <<others, sessionSettings, mounted, settings, refVars, textVars, audioVars, attempts,
                   promiseState, live, awaiting, microtasks, stopRun, stopIssued>>

\* The continuations suspended on promise s become ready, in the order they
\* were registered.
RECURSIVE Woken(_, _)
Woken(ws, s) ==
    IF ws = <<>> THEN <<>>
    ELSE IF Head(ws).s = s
         THEN <<Head(ws)>> \o Woken(Tail(ws), s)
         ELSE Woken(Tail(ws), s)

RECURSIVE StillAwaiting(_, _)
StillAwaiting(ws, s) ==
    IF ws = <<>> THEN <<>>
    ELSE IF Head(ws).s = s THEN StillAwaiting(Tail(ws), s)
         ELSE <<Head(ws)>> \o StillAwaiting(Tail(ws), s)

\* The continuations suspended on promise s when it rejects: an await throws
\* into its catch block, a then() without a rejection handler is dropped.
RECURSIVE WokenByRejection(_, _)
WokenByRejection(ws, s) ==
    IF ws = <<>> THEN <<>>
    ELSE IF Head(ws).s = s /\ Head(ws).k = "stop"
         THEN <<Head(ws)>> \o WokenByRejection(Tail(ws), s)
         ELSE WokenByRejection(Tail(ws), s)

\* lines 413-429: the socket opened; onopen builds the capture graph on the
\* input context the cell holds, then connect()'s promise resolves.  With the
\* cell null the callback throws and the promise never settles.
OnOpen(s) ==
    /\ s \in live.session
    /\ promiseState[s] = "pending"
    /\ IF inputAudioContextRef = Null
       THEN /\ promiseState' = [promiseState EXCEPT ![s] = "hung"]
            /\ ev' = Event("onopenThrew")
            /\ UNCHANGED <<scriptProcessorRef, live, awaiting, microtasks>>
       ELSE /\ scriptProcessorRef' = inputAudioContextRef
            /\ live' = [live EXCEPT !.processor = @ \cup {inputAudioContextRef}]
            /\ promiseState' = [promiseState EXCEPT ![s] = "resolved"]
            /\ microtasks' = microtasks \o Woken(awaiting, s)
            /\ awaiting' = StillAwaiting(awaiting, s)
            /\ ev' = Event("onopen")
    /\ UNCHANGED <<others, sessionSettings, mounted, settings, isSessionActive, cleanupPending, sessionPromiseRef,
                   inputAudioContextRef, outputAudioContextRef, microphoneStreamRef,
                   textVars, audioVars, attempts, micPending, alerts, stopRun, stopIssued>>

\* line 400: the promise connect() returned rejects
ConnectRejects(s) ==
    /\ s \in live.session
    /\ promiseState[s] = "pending"
    /\ promiseState' = [promiseState EXCEPT ![s] = "rejected"]
    /\ live' = [live EXCEPT !.session = @ \ {s}]
    /\ microtasks' = microtasks \o WokenByRejection(awaiting, s)
    /\ awaiting' = StillAwaiting(awaiting, s)
    /\ ev' = Event("connectRejected")
    /\ UNCHANGED <<others, sessionSettings, mounted, settings, isSessionActive, cleanupPending, refVars, textVars,
                   audioVars, attempts, micPending, alerts, stopRun, stopIssued>>

\* line 565: the main button while a session is active
UserStop ==
    /\ mounted /\ TaskReady /\ ~cleanupPending
    /\ isSessionActive
    /\ CanStop
    /\ StopCall
    /\ stopIssued' = TRUE
    /\ ev' = Event("userStop")
    /\ UNCHANGED <<others, sessionSettings, mounted, settings, isSessionActive, cleanupPending, refVars, textVars,
                   audioVars, attempts, micPending, promiseState, live, alerts, stopRun>>

\* an onerror that logs the error and leaves the session as it is
OnErrorLogsOnly(s) ==
    /\ s \in live.session
    /\ CanStop
    /\ ev' = Event("onerror")
    /\ UNCHANGED <<others, sessionSettings, mounted, settings, isSessionActive, cleanupPending, refVars, textVars,
                   audioVars, attempts, micPending, promiseState, live, awaiting,
                   microtasks, alerts, stopRun, stopIssued>>

\* lines 478-481: a transport error of a session whose connection is up
OnError(s) ==
    /\ s \in live.session
    /\ CanStop
    /\ StopCall
    /\ ev' = Event("onerror")
    /\ UNCHANGED <<others, sessionSettings, mounted, settings, isSessionActive, cleanupPending, refVars, textVars,
                   audioVars, attempts, micPending, promiseState, live, alerts, stopRun,
                   stopIssued>>

\* lines 495-500: isSessionActive went from true to false; the cleanup of the
\* effect of the render that had it true calls handleStopSession
EffectCleanup ==
    /\ cleanupPending
    /\ cleanupPending' = FALSE
    /\ StopCall
    /\ ev' = Event("effectCleanup")
    /\ UNCHANGED <<others, sessionSettings, mounted, settings, isSessionActive, refVars, textVars, audioVars,
                   attempts, micPending, promiseState, live, alerts, stopRun, stopIssued>>

\* lines 495-500: the component is torn down
Unmount ==
    /\ mounted /\ TaskReady /\ ~cleanupPending
    /\ CanStop
    /\ mounted' = FALSE
    /\ IF isSessionActive THEN StopCall ELSE UNCHANGED <<awaiting, microtasks>>
    /\ ev' = Event("unmount")
    /\ UNCHANGED <<others, sessionSettings, settings, isSessionActive, cleanupPending, refVars, textVars, audioVars,
                   attempts, micPending, promiseState, live, alerts, stopRun, stopIssued>>

\* ----------------------------------------------------------- onaudioprocess
\* a callback that sends on the session of its own start, whatever the cell holds
ForwardFrameUnguarded(p) ==
    /\ microtasks' = Append(microtasks, [k |-> "send", s |-> p, m |-> NoMsg])
    /\ UNCHANGED awaiting

\* lines 421-425: with the cell non-null, then() registers the send on the
\* promise it holds: ready at once on a resolved promise, waiting on a pending
\* one, never run on a rejected one
ForwardFrame(p) ==
    IF sessionPromiseRef = Null
    THEN UNCHANGED <<awaiting, microtasks>>
    ELSE IF promiseState[sessionPromiseRef] = "resolved"
         THEN /\ microtasks' = Append(microtasks, [k |-> "send", s |-> sessionPromiseRef, m |-> NoMsg])
              /\ UNCHANGED awaiting
         ELSE IF promiseState[sessionPromiseRef] \in Unsettled
              THEN /\ awaiting' = Append(awaiting, [k |-> "send", s |-> sessionPromiseRef, m |-> NoMsg])
                   /\ UNCHANGED microtasks
              ELSE UNCHANGED <<awaiting, microtasks>>

\* lines 418-426: an audioprocess event of the processor onopen(p) created.  The
\* audio thread learns of disconnect() and close() after the calls return, so
\* events keep arriving for a while after a stop; none outlives the next start.
Frame(p) ==
    /\ TaskReady
    /\ promiseState[p] = "resolved"
    /\ attempts = p
    /\ ForwardFrame(p)
    /\ ev' = Event("frame")
    /\ UNCHANGED <<others, sessionSettings, mounted, settings, isSessionActive, cleanupPending, refVars, textVars,
                   audioVars, attempts, micPending, promiseState, live, alerts, stopRun,
                   stopIssued>>

\* lines 422-424: the callback then() registered runs session.sendRealtimeInput
SendResume ==
    /\ microtasks # <<>>
    /\ Head(microtasks).k = "send"
    /\ microtasks' = Tail(microtasks)
    /\ ev' = Event("send")
    /\ UNCHANGED <<others, sessionSettings, mounted, settings, isSessionActive, cleanupPending, refVars, textVars,
                   audioVars, attempts, micPending, promiseState, live, awaiting, alerts,
                   stopRun, stopIssued>>

NextLifecycle ==
    \/ UserStart
    \/ \E a \in Attempts : MicGranted(a)
    \/ \E a \in Attempts : MicDenied(a)
    \/ \E s \in Attempts : OnOpen(s)
    \/ \E s \in Attempts : ConnectRejects(s)
    \/ UserStop
    \/ \E s \in Attempts : OnError(s)
    \/ StopResume
    \/ EffectCleanup
    \/ Unmount

SpecLifecycle == Init /\ [][NextLifecycle]_vars

\* lines 392-398, 488-492: getUserMedia resolved, the stream and the two
\* contexts are stored, and new GoogleGenAI throws, as it does in a browser
\* when the build has no API key.  The catch block alerts and calls
\* setIsSessionActive(false); what was stored before the throw stays.
StartThrows(a) ==
    /\ a \in micPending
    /\ micPending' = micPending \ {a}
    /\ microphoneStreamRef' = a
    /\ inputAudioContextRef' = a
    /\ outputAudioContextRef' = a
    /\ live' = [live EXCEPT !.mic = @ \cup {a}, !.inputCtx = @ \cup {a},
                            !.outputCtx = @ \cup {a}]
    /\ clock' = 0
    /\ alerts' = alerts + 1
    /\ isSessionActive' = FALSE
    /\ cleanupPending' = (cleanupPending \/ (isSessionActive /\ mounted))
    /\ ev' = [k |-> "startThrew", m |-> NoMsg, n |-> a]
    /\ UNCHANGED <<others, sessionSettings, mounted, settings, sessionPromiseRef,
                   scriptProcessorRef, textVars, nextStartTimeRef, audioSourcesRef, nodes,
                   schedule, run, attempts, promiseState, awaiting, microtasks, stopRun,
                   stopIssued>>

\* The lifecycle in a build without an API key: no start gets as far as
\* connect().
NextStartFailure ==
    \/ UserStart
    \/ \E a \in Attempts : MicDenied(a)
    \/ \E a \in Attempts : StartThrows(a)
    \/ UserStop
    \/ EffectCleanup
    \/ Unmount

SpecStartFailure == Init /\ [][NextStartFailure]_vars

\* A continuation that is ready runs: the event loop empties the microtask queue
\* and React runs the cleanup of an effect whose dependency changed.
SpecLifecycleFair ==
    Init /\ [][NextLifecycle]_vars /\ WF_vars(StopResume) /\ WF_vars(EffectCleanup)

\* The session's lifecycle with the microphone frames of an open session.
NextCapture ==
    \/ UserStart
    \/ \E a \in Attempts : MicGranted(a)
    \/ \E s \in Attempts : OnOpen(s)
    \/ UserStop
    \/ \E s \in Attempts : OnError(s)
    \/ StopResume
    \/ EffectCleanup
    \/ \E p \in Attempts : Frame(p)
    \/ SendResume

SpecCapture == Init /\ [][NextCapture]_vars

\* ------------------------------------------------------------------ onmessage
\* String.prototype.trim on a text of letters and blanks
RECURSIVE TrimStart(_)
TrimStart(t) == IF t # <<>> /\ Head(t) = " " THEN TrimStart(Tail(t)) ELSE t

RECURSIVE TrimEnd(_)
TrimEnd(t) == IF t # <<>> /\ t[Len(t)] = " " THEN TrimEnd(SubSeq(t, 1, Len(t) - 1)) ELSE t

Trim(t) == TrimEnd(TrimStart(t))

\* a buffer that holds the latest partial text only
AccumulatedLatestOnly(m) == IF m.text # <<>> THEN m.text ELSE currentTextRef

\* lines 431-434: the utterance buffer after the message's recognized text
Accumulated(m) == currentTextRef \o m.text

\* the entry put in front of the earlier ones
EntryPrepended(m) ==
    <<[speaker |-> "user", text |-> Accumulated(m)]>> \o transcripts

\* lines 436-440: the entry a turn-complete signal commits; its id (Date.now(), a
\* render key that nothing else reads) is left out
Committed(m) ==
    Append(transcripts, [speaker |-> "user", text |-> Accumulated(m)])

\* a turn-complete that commits without looking at the trimmed text
TextPartAlwaysCommits(m) ==
    /\ currentTextRef' = IF m.turnComplete THEN <<>> ELSE Accumulated(m)
    /\ interimTranscript' = IF m.turnComplete THEN <<>>
                            ELSE IF m.text # <<>> THEN Accumulated(m) ELSE interimTranscript
    /\ transcripts' = IF m.turnComplete THEN Committed(m) ELSE transcripts

\* lines 431-443: the recognized text and the turn-complete signal of a message
TextPart(m) ==
    /\ currentTextRef' = IF m.turnComplete THEN <<>> ELSE Accumulated(m)
    /\ interimTranscript' = IF m.turnComplete THEN <<>>
                            ELSE IF m.text # <<>> THEN Accumulated(m) ELSE interimTranscript
    /\ transcripts' = IF m.turnComplete /\ Trim(Accumulated(m)) # <<>>
                      THEN Committed(m) ELSE transcripts

\* The scheduler's cells, as the handler's steps pass them on.
AudioState ==
    [cursor |-> nextStartTimeRef, sources |-> audioSourcesRef, nodes |-> nodes,
     schedule |-> schedule, run |-> run]

\* line 448
SyncCursor(a) ==
    [a EXCEPT !.cursor = Max(a.cursor, clock),
              !.run.clockAhead = (@ \/ clock > a.cursor)]

\* a chunk started at the clock reading instead of the cursor
StartChunkAtClock(a, ctx, dur) ==
    LET end == clock + dur \div sessionSettings.playbackRate
    IN [a EXCEPT !.nodes = Append(@, [ctx |-> ctx, start |-> clock, end |-> end, state |-> "playing",
                                        gain |-> sessionSettings.volume,
                                        rate |-> sessionSettings.playbackRate]),
                 !.cursor = a.cursor + dur \div sessionSettings.playbackRate,
                 !.sources = @ \cup {Len(a.nodes) + 1},
                 !.schedule = Append(@, [start |-> clock, dur |-> dur,
                                         rate |-> sessionSettings.playbackRate,
                                         cursorAfter |-> a.cursor + dur \div sessionSettings.playbackRate])]

\* a cursor advanced by duration * playbackRate
StartChunkTimesRate(a, ctx, dur) ==
    LET end == a.cursor + dur * sessionSettings.playbackRate
    IN [a EXCEPT !.nodes = Append(@, [ctx |-> ctx, start |-> a.cursor, end |-> end, state |-> "playing",
                                        gain |-> sessionSettings.volume,
                                        rate |-> sessionSettings.playbackRate]),
                 !.cursor = end,
                 !.sources = @ \cup {Len(a.nodes) + 1},
                 !.schedule = Append(@, [start |-> a.cursor, dur |-> dur,
                                         rate |-> sessionSettings.playbackRate, cursorAfter |-> end])]

\* a node left with the gain and the rate it is created with, 1 and 1
StartChunkDefaults(a, ctx, dur) ==
    LET end == a.cursor + dur \div sessionSettings.playbackRate
    IN [a EXCEPT !.nodes = Append(@, [ctx |-> ctx, start |-> a.cursor, end |-> end, state |-> "playing",
                                        gain |-> 1, rate |-> 1]),
                 !.cursor = end,
                 !.sources = @ \cup {Len(a.nodes) + 1},
                 !.schedule = Append(@, [start |-> a.cursor, dur |-> dur,
                                         rate |-> sessionSettings.playbackRate, cursorAfter |-> end])]

\* lines 451-467: a source node for the decoded buffer gets the gain and the
\* rate of the settings the callback closed over and is started at the cursor,
\* the cursor advances by duration / playbackRate, the node joins the active set
StartChunk(a, ctx, dur) ==
    LET end == a.cursor + dur \div sessionSettings.playbackRate
    IN [a EXCEPT !.nodes = Append(@, [ctx |-> ctx, start |-> a.cursor, end |-> end, state |-> "playing",
                                        gain |-> sessionSettings.volume,
                                        rate |-> sessionSettings.playbackRate]),
                 !.cursor = end,
                 !.sources = @ \cup {Len(a.nodes) + 1},
                 !.schedule = Append(@, [start |-> a.cursor, dur |-> dur,
                                         rate |-> sessionSettings.playbackRate, cursorAfter |-> end])]

\* lines 471-474: the loop over the active set, in insertion order
RECURSIVE StopAll(_)
StopAll(a) ==
    IF a.sources = {} THEN a
    ELSE LET n == CHOOSE x \in a.sources : \A y \in a.sources : x <= y
         IN StopAll([a EXCEPT !.nodes[n].state = "stopped", !.sources = @ \ {n}])

\* a flush that stops only the first active node
InterruptFirstOnly(a) ==
    IF a.sources = {} THEN [a EXCEPT !.cursor = 0, !.schedule = <<>>, !.run = NoRun]
    ELSE LET n == CHOOSE x \in a.sources : \A y \in a.sources : x <= y
         IN [a EXCEPT !.nodes[n].state = "stopped", !.sources = @ \ {n},
                      !.cursor = 0, !.schedule = <<>>, !.run = NoRun]

\* lines 470-476
Interrupt(a) ==
    [StopAll(a) EXCEPT !.cursor = 0, !.schedule = <<>>, !.run = NoRun]

SetAudio(a) ==
    /\ nextStartTimeRef' = a.cursor
    /\ audioSourcesRef' = a.sources
    /\ nodes' = a.nodes
    /\ schedule' = a.schedule
    /\ run' = a.run

SessionOpen == \E s \in live.session : promiseState[s] = "resolved"

Decodes == {i \in 1..Len(microtasks) : microtasks[i].k = "decode"}

\* lines 430-449 and 470-476: a message of the open session, up to the await of
\* decodeAudioData when it carries audio, to the end when it does not.  The
\* continuation carries the context read at line 447 and, for reference, the
\* number of the message among the audio messages received.
OnMessage(m) ==
    /\ SessionOpen
    /\ Len(Accumulated(m)) <= MaxTextLen
    /\ m.turnComplete => Len(transcripts) < MaxTranscripts
    /\ TextPart(m)
    /\ IF m.audio # NoAudio
       THEN /\ Cardinality(Decodes) < MaxPending
            /\ Len(nodes) + Cardinality(Decodes) < MaxChunks
            /\ IF outputAudioContextRef = Null
               THEN /\ ev' = [k |-> "onmessageThrew", m |-> m, n |-> 0]
                    /\ UNCHANGED <<audioVars, microtasks>>
               ELSE /\ SetAudio(SyncCursor(AudioState))
                    /\ microtasks' = Append(microtasks,
                                            [k |-> "decode", s |-> outputAudioContextRef, m |-> m,
                                             n |-> Len(nodes) + Cardinality(Decodes) + 1])
                    /\ ev' = [k |-> "onmessage", m |-> m, n |-> 0]
                    /\ UNCHANGED clock
       ELSE /\ IF m.interrupted
               THEN SetAudio(Interrupt(AudioState))
               ELSE UNCHANGED <<nextStartTimeRef, audioSourcesRef, nodes, schedule, run>>
            /\ ev' = [k |-> "onmessage", m |-> m, n |-> Cardinality(audioSourcesRef)]
            /\ UNCHANGED <<clock, microtasks>>
    /\ UNCHANGED <<others, sessionSettings, mounted, settings, isSessionActive, cleanupPending, refVars,
                   attempts, micPending, promiseState, live, awaiting, alerts, stopRun,
                   stopIssued>>

\* continuations resumed last in, first out
DecodeResumeLatestFirst ==
    /\ microtasks # <<>>
    /\ microtasks[Len(microtasks)].k = "decode"
    /\ LET t == microtasks[Len(microtasks)]
           started == StartChunk(AudioState, t.s, t.m.audio)
       IN /\ SetAudio(IF t.m.interrupted THEN Interrupt(started) ELSE started)
          /\ ev' = [k |-> "decodeResume", m |-> t.m, n |-> Cardinality(started.sources)]
    /\ microtasks' = SubSeq(microtasks, 1, Len(microtasks) - 1)
    /\ UNCHANGED <<others, sessionSettings, mounted, settings, isSessionActive, cleanupPending, refVars, textVars,
                   clock, attempts, micPending, promiseState, live, awaiting, alerts,
                   stopRun, stopIssued>>

\* lines 449-476: decodeAudioData returned; the chunk is started and the
\* message's interrupt flag is looked at.  Continuations run in the order in
\* which their promises were settled.
DecodeResume ==
    /\ microtasks # <<>>
    /\ Head(microtasks).k = "decode"
    /\ LET t == Head(microtasks)
           started == StartChunk(AudioState, t.s, t.m.audio)
       IN /\ SetAudio(IF t.m.interrupted THEN Interrupt(started) ELSE started)
          /\ ev' = [k |-> "decodeResume", m |-> t.m, n |-> Cardinality(started.sources)]
    /\ microtasks' = Tail(microtasks)
    /\ UNCHANGED <<others, sessionSettings, mounted, settings, isSessionActive, cleanupPending, refVars, textVars,
                   clock, attempts, micPending, promiseState, live, awaiting, alerts,
                   stopRun, stopIssued>>

\* lines 461-463: a node played to its end
Ended(n) ==
    /\ TaskReady
    /\ n \in 1..Len(nodes)
    /\ nodes[n].state = "playing"
    /\ nodes[n].ctx \in live.outputCtx
    /\ clock >= nodes[n].end
    /\ nodes' = [nodes EXCEPT ![n].state = "ended"]
    /\ audioSourcesRef' = audioSourcesRef \ {n}
    /\ ev' = Event("ended")
    /\ UNCHANGED <<others, sessionSettings, mounted, settings, isSessionActive, cleanupPending, refVars, textVars,
                   nextStartTimeRef, clock, schedule, run, attempts, micPending,
                   promiseState, live, awaiting, microtasks, alerts, stopRun, stopIssued>>

\* outputAudioContext.currentTime advances between tasks
Tick ==
    /\ TaskReady
    /\ live.outputCtx # {}
    /\ clock < MaxClock
    /\ clock' = clock + 1
    /\ ev' = Event("tick")
    /\ UNCHANGED <<others, sessionSettings, mounted, settings, isSessionActive, cleanupPending, refVars, textVars,
                   nextStartTimeRef, audioSourcesRef, nodes, schedule, run, attempts,
                   micPending, promiseState, live, awaiting, microtasks, alerts, stopRun,
                   stopIssued>>

\* The session's lifecycle with the transcription traffic of an open session.
NextTranscript ==
    \/ UserStart
    \/ \E a \in Attempts : MicGranted(a)
    \/ \E s \in Attempts : OnOpen(s)
    \/ UserStop
    \/ StopResume
    \/ EffectCleanup
    \/ \E m \in TextMessages : OnMessage(m)

SpecTranscript == Init /\ [][NextTranscript]_vars

\* The session's lifecycle with the audio traffic of an open session.
NextPlayback ==
    \/ (attempts < MaxPlaybackStarts /\ UserStart)
    \/ \E a \in Attempts : MicGranted(a)
    \/ \E s \in Attempts : OnOpen(s)
    \/ UserStop
    \/ StopResume
    \/ EffectCleanup
    \/ \E m \in AudioMessages : OnMessage(m)
    \/ DecodeResume
    \/ \E n \in 1..MaxChunks : Ended(n)
    \/ Tick

SpecPlayback == Init /\ [][NextPlayback]_vars

\* the traffic of the sessions that are started one after the other
RestartMessages ==
    {m \in Messages : /\ m # NoMsg /\ ~m.interrupted /\ m.audio \in {NoAudio, 2}
                      /\ m.text # <<" ">>
                      /\ m.audio # NoAudio => (m.text = <<>> /\ ~m.turnComplete)}

\* Sessions started and stopped one after the other, each with text and audio
\* traffic while it is open, one message handled at a time.
NextRestart ==
    \/ UserStart
    \/ \E a \in Attempts : MicGranted(a)
    \/ \E s \in Attempts : OnOpen(s)
    \/ UserStop
    \/ StopResume
    \/ EffectCleanup
    \/ (microtasks = <<>> /\ \E m \in RestartMessages : OnMessage(m))
    \/ DecodeResume

SpecRestart == Init /\ [][NextRestart]_vars

\* A session brought up and its audio traffic, with the theme button at hand.
NextPlaybackSettings ==
    \/ (attempts < MaxPlaybackStarts /\ UserStart)
    \/ \E a \in Attempts : MicGranted(a)
    \/ \E s \in Attempts : OnOpen(s)
    \/ ToggleTheme
    \/ \E m \in AudioMessages : OnMessage(m)
    \/ DecodeResume

SpecPlaybackSettings == Init /\ [][NextPlaybackSettings]_vars

\* ------------------------------------------------------------ TextPracticeView
\* the fields of AnalysisResult, lines 131-135
Fields == {"correctedText", "explanation", "phonetics"}
CorrectedTexts == {<<"a">>, <<" ">>}

\* What generateContent gives handleAnalyze: a rejection, or a response whose
\* text is empty, is not JSON, or is the JSON of an object with some fields.
AnalysisResponses ==
    {[kind |-> k, fields |-> {}, correctedText |-> <<>>] : k \in {"rejected", "empty", "invalidJson"}}
        \cup {[kind |-> "jsonObject", fields |-> fs \cup {"correctedText"}, correctedText |-> t] :
                 fs \in SUBSET Fields, t \in CorrectedTexts}
        \cup {[kind |-> "jsonObject", fields |-> fs, correctedText |-> <<>>] :
                 fs \in SUBSET (Fields \ {"correctedText"})}

\* line 188: JSON.parse of the response text; the value is stored unexamined
Parsed(resp) == [kind |-> "object", fields |-> resp.fields, correctedText |-> resp.correctedText]

\* What generateContent gives handleSpeak: a rejection, a response without
\* inline data, or one with PCM bytes, of an even or an odd number.
SpeakResponses == {"rejected", "noAudio", "audio", "oddAudio"}

\* lines 150-152 and 254: the draft is edited; the effect on textToSpeak clears
\* the analysis
SetText(t) ==
    /\ TaskReady
    /\ t # textToSpeak
    /\ textToSpeak' = t
    /\ analysis' = NoAnalysis
    /\ ev' = Event("setText")
    /\ UNCHANGED <<localStorage, prefersDarkMode, isAnalyzing, isSpeaking, audioContextRef,
                   analyses, speaks, codec, sessionSettings, mounted, settings,
                   isSessionActive, cleanupPending, refVars, textVars, audioVars, attempts,
                   micPending, promiseState, live, awaiting, microtasks, alerts, stopRun,
                   stopIssued>>

\* a Review button disabled by a blank draft only
ReviewDisabledBlankOnly == Trim(textToSpeak) = <<>>

\* line 320: the disabled attribute of the Review button
ReviewDisabled == isAnalyzing \/ Trim(textToSpeak) = <<>>

\* lines 154-184 and 318-324: a click on the Review button, which does nothing
\* while the button is disabled; the handler, which returns on a blank draft
\* (line 155), up to the await of generateContent
HandleAnalyze ==
    /\ TaskReady
    /\ IF ReviewDisabled \/ Trim(textToSpeak) = <<>>
       THEN /\ ev' = Event("reviewIgnored")
            /\ UNCHANGED <<isAnalyzing, analysis, analyses>>
       ELSE /\ Len(analyses) < MaxCalls
            /\ isAnalyzing' = TRUE
            /\ analysis' = NoAnalysis
            /\ analyses' = Append(analyses, "requesting")
            /\ ev' = Event("handleAnalyze")
    /\ UNCHANGED <<localStorage, prefersDarkMode, textToSpeak, isSpeaking, audioContextRef,
                   speaks, codec, sessionSettings, mounted, settings,
                   isSessionActive, cleanupPending, refVars, textVars, audioVars, attempts,
                   micPending, promiseState, live, awaiting, microtasks, alerts, stopRun,
                   stopIssued>>

\* lines 186-192: the analysis stored and the alerts raised once the request
\* has settled
AnalysisOutcome(resp) ==
    IF resp.kind \in {"rejected", "invalidJson"}
    THEN [analysis |-> analysis, alerts |-> alerts + 1]
    ELSE IF resp.kind = "empty"
         THEN [analysis |-> analysis, alerts |-> alerts]
         ELSE [analysis |-> Parsed(resp), alerts |-> alerts]

\* lines 186-195: handleAnalyze from the await to its end
AnalyzeReturns(i, resp) ==
    /\ i \in 1..Len(analyses)
    /\ analyses[i] = "requesting"
    /\ analyses' = [analyses EXCEPT ![i] = "done"]
    /\ analysis' = AnalysisOutcome(resp).analysis
    /\ alerts' = AnalysisOutcome(resp).alerts
    /\ isAnalyzing' = FALSE
    /\ ev' = [k |-> "analyzeReturned", m |-> resp, n |-> i]
    /\ UNCHANGED <<localStorage, prefersDarkMode, textToSpeak, isSpeaking, audioContextRef,
                   speaks, codec, sessionSettings, mounted, settings,
                   isSessionActive, cleanupPending, refVars, textVars, audioVars, attempts,
                   micPending, promiseState, live, awaiting, microtasks, stopRun,
                   stopIssued>>

\* a guard that looks at the text only
SpeakGuardTextOnly(t) == Trim(t) = <<>>

\* line 199
SpeakGuard(t) == Trim(t) = <<>> \/ isSpeaking

\* lines 198-215 and 274: the speak button of the displayed analysis; the
\* handler up to the await of generateContent.  Without a correctedText the
\* call throws at line 199, outside the try.
HandleSpeak ==
    /\ TaskReady
    /\ analysis # NoAnalysis /\ ~isAnalyzing
    /\ IF "correctedText" \notin analysis.fields
       THEN /\ ev' = Event("speakThrew")
            /\ UNCHANGED <<isSpeaking, speaks>>
       ELSE IF SpeakGuard(analysis.correctedText)
            THEN /\ ev' = Event("speakRejected")
                 /\ UNCHANGED <<isSpeaking, speaks>>
            ELSE /\ Len(speaks) < MaxCalls
                 /\ isSpeaking' = TRUE
                 /\ speaks' = Append(speaks, [phase |-> "requesting", resp |-> "none"])
                 /\ ev' = Event("speakAccepted")
    /\ UNCHANGED <<localStorage, prefersDarkMode, textToSpeak, isAnalyzing, analysis,
                   audioContextRef, analyses, codec, sessionSettings, mounted, settings,
                   isSessionActive, cleanupPending, refVars, textVars, audioVars, attempts,
                   micPending, promiseState, live, awaiting, microtasks, alerts, stopRun,
                   stopIssued>>

\* a catch block that alerts and leaves isSpeaking set
SpeakFailedNoReset(i) ==
    /\ alerts' = alerts + 1
    /\ UNCHANGED isSpeaking
    /\ speaks' = [speaks EXCEPT ![i].phase = "failed"]

\* lines 239-243: the catch block
SpeakFailed(i) ==
    /\ alerts' = alerts + 1
    /\ isSpeaking' = FALSE
    /\ speaks' = [speaks EXCEPT ![i].phase = "failed"]

\* lines 217-223 and 236-243: generateContent settled; with audio the context
\* is created if there is none and the handler awaits decodeAudioData
SpeakReturns(i, resp) ==
    /\ i \in 1..Len(speaks)
    /\ speaks[i].phase = "requesting"
    /\ IF resp = "rejected"
       THEN /\ SpeakFailed(i)
            /\ UNCHANGED <<audioContextRef, microtasks>>
       ELSE IF resp = "noAudio"
            THEN /\ isSpeaking' = FALSE
                 /\ speaks' = [speaks EXCEPT ![i] = [phase |-> "done", resp |-> resp]]
                 /\ UNCHANGED <<audioContextRef, microtasks, alerts>>
            ELSE /\ audioContextRef' = 1
                 /\ speaks' = [speaks EXCEPT ![i] = [phase |-> "decoding", resp |-> resp]]
                 /\ microtasks' = Append(microtasks, [k |-> "speakDecode", s |-> i, m |-> NoMsg])
                 /\ UNCHANGED <<isSpeaking, alerts>>
    /\ ev' = [k |-> "speakReturned", m |-> resp, n |-> i]
    /\ UNCHANGED <<localStorage, prefersDarkMode, textToSpeak, isAnalyzing, analysis,
                   analyses, codec, sessionSettings, mounted, settings,
                   isSessionActive, cleanupPending, refVars, textVars, audioVars, attempts,
                   micPending, promiseState, live, awaiting, stopRun, stopIssued>>

\* lines 223-235 and 239-243: decodeAudioData settled; an odd number of bytes
\* makes Int16Array throw (line 36), else the source is started
SpeakDecodeResume ==
    /\ microtasks # <<>>
    /\ Head(microtasks).k = "speakDecode"
    /\ LET i == Head(microtasks).s
       IN /\ IF speaks[i].resp = "oddAudio"
             THEN SpeakFailed(i)
             ELSE /\ speaks' = [speaks EXCEPT ![i].phase = "playing"]
                  /\ UNCHANGED <<isSpeaking, alerts>>
          /\ ev' = [k |-> "speakDecoded", m |-> speaks[i].resp, n |-> i]
    /\ microtasks' = Tail(microtasks)
    /\ UNCHANGED <<localStorage, prefersDarkMode, textToSpeak, isAnalyzing, analysis,
                   audioContextRef, analyses, codec, sessionSettings, mounted, settings,
                   isSessionActive, cleanupPending, refVars, textVars, audioVars, attempts,
                   micPending, promiseState, live, awaiting, stopRun, stopIssued>>

\* line 235: the source played to its end
SpeakEnded(i) ==
    /\ TaskReady
    /\ i \in 1..Len(speaks)
    /\ speaks[i].phase = "playing"
    /\ speaks' = [speaks EXCEPT ![i].phase = "done"]
    /\ isSpeaking' = FALSE
    /\ ev' = [k |-> "speakEnded", m |-> speaks[i].resp, n |-> i]
    /\ UNCHANGED <<localStorage, prefersDarkMode, textToSpeak, isAnalyzing, analysis,
                   audioContextRef, analyses, codec, sessionSettings, mounted, settings,
                   isSessionActive, cleanupPending, refVars, textVars, audioVars, attempts,
                   micPending, promiseState, live, awaiting, microtasks, alerts, stopRun,
                   stopIssued>>

NextPractice ==
    \/ \E t \in TextParts : SetText(t)
    \/ HandleAnalyze
    \/ \E i \in 1..MaxCalls, resp \in AnalysisResponses : AnalyzeReturns(i, resp)
    \/ HandleSpeak
    \/ \E i \in 1..MaxCalls, resp \in SpeakResponses : SpeakReturns(i, resp)
    \/ SpeakDecodeResume
    \/ \E i \in 1..MaxCalls : SpeakEnded(i)

SpecPractice == Init /\ [][NextPractice]_vars

\* ------------------------------------------------------------ lifecycle claims
RefsNull ==
    /\ sessionPromiseRef = Null
    /\ microphoneStreamRef = Null
    /\ scriptProcessorRef = Null
    /\ inputAudioContextRef = Null
    /\ outputAudioContextRef = Null

Idle == ~isSessionActive /\ RefsNull /\ live = NoLive

\* No handler is suspended and no promise is pending: nothing more happens
\* unless the user or the transport acts again.
Quiescent ==
    /\ micPending = {}
    /\ awaiting = <<>>
    /\ microtasks = <<>>
    /\ ~cleanupPending
    /\ \A a \in Attempts : promiseState[a] \notin Unsettled

\* C1: a stop pressed while the session is Starting or Active brings the
\* lifecycle to Idle without a second stop: once the user has pressed stop and
\* every handler and promise of the session has run to its end, isSessionActive
\* is false and the session, stream, processor and both contexts are released.
C1_StopReachesIdle == (stopIssued /\ Quiescent) => Idle

\* C2: in every reachable state at most one session, microphone stream,
\* processor node, input context and output context is alive.
C2_AtMostOneSession ==
    /\ Cardinality(live.session) <= 1
    /\ Cardinality(live.mic) <= 1
    /\ Cardinality(live.processor) <= 1
    /\ Cardinality(live.inputCtx) <= 1
    /\ Cardinality(live.outputCtx) <= 1

StopCallers == {"userStop", "onerror", "effectCleanup", "unmount"}

\* C3: a handleStopSession call made while there is no session handle makes no
\* call and changes no reference cell and no state: the step changes nothing
\* but what its caller itself sets.
C3_IdleStopIsNoOp ==
    [][(ev'.k \in StopCallers /\ sessionPromiseRef = Null) =>
         UNCHANGED <<isSessionActive, refVars, textVars, audioVars, attempts, micPending,
                     promiseState, live, awaiting, microtasks, alerts, stopRun, settings>>]_vars

C3_Witness ==
    /\ ev.k = "effectCleanup"
    /\ ~isSessionActive /\ sessionPromiseRef = Null /\ stopRun.ops # <<>>

\* C9: a stop continuation that runs on the live session closes the session (or
\* logs the error of a failed handshake), then stops the tracks, disconnects
\* the processor node if there is one, closes the input context, closes the
\* output context, and only then nulls the cells and sets the state.
C9_CleanupOrder ==
    stopRun.onLive =>
        /\ stopRun.promise = "resolved" =>
              stopRun.ops = <<"session.close", "track.stop", "processor.disconnect",
                              "inputCtx.close", "outputCtx.close", "refs = null",
                              "setIsSessionActive(false)">>
        /\ stopRun.promise # "resolved" =>
              stopRun.ops = <<"console.error", "track.stop",
                              "inputCtx.close", "outputCtx.close", "refs = null",
                              "setIsSessionActive(false)">>

C9_Witness ==
    /\ ev.k = "stopResume"
    /\ stopRun.onLive /\ stopRun.promise = "resolved"
    /\ live = NoLive

\* An attempt whose getUserMedia was rejected: started, no longer waiting,
\* never connected.
Denied(a) == a <= attempts /\ a \notin micPending /\ promiseState[a] = "none"

\* C10: when getUserMedia is rejected the handler alerts once and sets the state
\* inactive; it sets no reference cell and acquires nothing, so that nothing of
\* the attempt is in a cell or alive; the attempt is never connected and never
\* waits for the microphone again.
C10_MicDeniedGoesIdle ==
    /\ [][ev'.k = "micDenied" =>
            /\ alerts' = alerts + 1
            /\ ~isSessionActive'
            /\ UNCHANGED <<refVars, live>>
            /\ \A a \in micPending \ micPending' :
                  /\ a \notin {sessionPromiseRef', microphoneStreamRef', scriptProcessorRef',
                                inputAudioContextRef', outputAudioContextRef'}
                  /\ a \notin (live'.session \cup live'.mic \cup live'.processor
                                  \cup live'.inputCtx \cup live'.outputCtx)
            /\ attempts' = attempts
            /\ promiseState' = promiseState]_vars
    /\ [][\A a \in Attempts : Denied(a) => Denied(a)']_vars

C10_Witness ==
    /\ ev.k = "micDenied"
    /\ alerts = 1 /\ Denied(1) /\ Idle

\* C11: a transport error reported while the session is Active (its handshake
\* done, its connection up) calls handleStopSession, whose continuation is made
\* ready at once; and from there the lifecycle reaches Idle through that stop
\* path: the session closed, the tracks stopped, the processor disconnected and
\* both contexts closed.
C11_ErrorReachesIdle ==
    /\ [][(ev'.k = "onerror" /\ SessionOpen) =>
            /\ microtasks' = Append(microtasks, [k |-> "stop", s |-> sessionPromiseRef, m |-> NoMsg])
            /\ sessionPromiseRef \in live.session]_vars
    /\ (ev.k = "onerror" /\ SessionOpen) ~> (Idle /\ ev.k = "stopResume" /\ stopRun.promise = "resolved")

C11_Witness ==
    /\ ev.k = "onerror" /\ SessionOpen
    /\ microtasks = <<[k |-> "stop", s |-> sessionPromiseRef, m |-> NoMsg]>>
    /\ live.processor # {} /\ isSessionActive

\* C12: a frame callback registers a send exactly when the session cell is
\* non-null, and then on the session the cell holds; with the cell cleared by a
\* stop the callback registers nothing; and every sendRealtimeInput call is made
\* on a session that is open, never on one a stop has closed.
C12_FramesDroppedAfterStop ==
    /\ [][ev'.k = "frame" =>
            IF sessionPromiseRef = Null
            THEN microtasks' = microtasks /\ awaiting' = awaiting
            ELSE microtasks' = Append(microtasks, [k |-> "send", s |-> sessionPromiseRef, m |-> NoMsg])]_vars
    /\ [][ev'.k = "send" =>
            /\ Head(microtasks).s \in live.session
            /\ promiseState[Head(microtasks).s] = "resolved"]_vars

\* a frame that arrived after a stop had closed the session and cleared the cell
C12_Witness ==
    /\ ev.k = "frame"
    /\ sessionPromiseRef = Null /\ stopRun.onLive /\ stopRun.promise = "resolved"
    /\ microtasks = <<>> /\ live = NoLive

\* C19: after the component is torn down with a session Starting or Active, the
\* stop path releases what the session holds and nothing is acquired afterwards:
\* once every handler and promise has run to its end, no session, stream,
\* processor or context is alive.
C19_TeardownReleases == (~mounted /\ Quiescent) => live = NoLive

\* -------------------------------------------------------------- playback claims
Stopped(ns) == {n \in 1..Len(ns) : ns[n].state = "stopped"}

\* The step processes an interrupt signal: in the handler of a message without
\* audio, or after the decode of a message with audio.
InterruptStep ==
    \/ ev'.k = "onmessage" /\ ev'.m.interrupted /\ ev'.m.audio = NoAudio
    \/ ev'.k = "decodeResume" /\ ev'.m.interrupted

\* C4: processing an interrupt signal leaves the active set empty and the cursor
\* at zero, whatever the number of active chunks, and every chunk that was in
\* the set (the message's own chunk included) has been stopped.
C4_InterruptFlushes ==
    [][InterruptStep =>
         /\ audioSourcesRef' = {}
         /\ nextStartTimeRef' = 0
         /\ \A n \in audioSourcesRef : nodes'[n].state = "stopped"
         /\ ev'.k = "decodeResume" => nodes'[Len(nodes')].state = "stopped"
         /\ Cardinality(Stopped(nodes') \ Stopped(nodes)) = ev'.n]_vars

C4_Witness ==
    /\ ev.k = "onmessage" /\ ev.m.interrupted /\ ev.n >= 2
    /\ audioSourcesRef = {} /\ nextStartTimeRef = 0
    /\ Cardinality(Stopped(nodes)) >= 2

RECURSIVE SumDurations(_, _)
SumDurations(sched, i) == IF i = 0 THEN 0 ELSE sched[i].dur + SumDurations(sched, i - 1)

\* C5 as stated: from cursor 0 and with no interrupt, the cursor after chunk i
\* is (d1 + ... + di) / r, whatever the clock read when the chunks arrived.
C5_CursorIsSum ==
    \A i \in 1..Len(schedule) :
        schedule[i].cursorAfter = SumDurations(schedule, i) \div settings.playbackRate

\* C5 amended: the cursor after chunk i is (d1 + ... + di) / r when no chunk of
\* the run arrived with the clock past the cursor, and is never less than it.
C5_CursorIsSumUnlessClockAhead ==
    /\ \A i \in 1..Len(schedule) :
          schedule[i].cursorAfter >= SumDurations(schedule, i) \div settings.playbackRate
    /\ ~run.clockAhead =>
          /\ \A i \in 1..Len(schedule) :
                schedule[i].cursorAfter = SumDurations(schedule, i) \div settings.playbackRate
          /\ nextStartTimeRef = SumDurations(schedule, Len(schedule)) \div settings.playbackRate

\* durations 1.0 s and 2.0 s (2 and 4 clock units) at rate 1: cursor 1.0 s, then 3.0 s
C5_Witness ==
    /\ settings.playbackRate = 1 /\ ~run.clockAhead
    /\ Len(schedule) = 2
    /\ schedule[1].dur = 2 /\ schedule[1].cursorAfter = 2
    /\ schedule[2].dur = 4 /\ schedule[2].cursorAfter = 6
    /\ nextStartTimeRef = 6

\* C6: between two resets of the cursor every chunk starts no earlier than the
\* chunk before it started, plus that chunk's duration over the playback rate.
C6_NoOverlap ==
    \A i \in 2..Len(schedule) :
        schedule[i].start >= schedule[i - 1].start + schedule[i - 1].dur \div schedule[i - 1].rate

C6_Witness ==
    /\ Len(schedule) = 2
    /\ schedule[1].start > 0
    /\ schedule[2].start = schedule[1].start + schedule[1].dur \div schedule[1].rate

IsPrefix(t, u) == Len(t) <= Len(u) /\ SubSeq(u, 1, Len(t)) = t

\* C7: processing a turn-complete signal appends one entry exactly when the
\* accumulated utterance is non-empty after trimming, and leaves the utterance
\* buffer and the interim transcript empty either way.
C7_TurnComplete ==
    [][(ev'.k = "onmessage" /\ ev'.m.turnComplete) =>
         /\ IF Trim(currentTextRef \o ev'.m.text) # <<>>
            THEN /\ Len(transcripts') = Len(transcripts) + 1
                 /\ transcripts'[Len(transcripts')].text = currentTextRef \o ev'.m.text
            ELSE transcripts' = transcripts
         /\ currentTextRef' = <<>>
         /\ interimTranscript' = <<>>]_vars

C7_Witness ==
    /\ ev.k = "onmessage" /\ ev.m.turnComplete /\ ev.m.text = <<" ">>
    /\ Len(transcripts) = 1 /\ transcripts[1].text = <<" ", "a">>
    /\ currentTextRef = <<>> /\ interimTranscript = <<>>

\* C8: the transcript only grows, by one entry at its end, and only when a
\* turn-complete signal is processed, the entry being that signal's utterance:
\* the entries stand in the order of their signals and none is changed, moved
\* or removed, by a message, a start or a stop.
C8_AppendOnly ==
    [][/\ IsPrefix(transcripts, transcripts')
       /\ Len(transcripts') <= Len(transcripts) + 1
       /\ Len(transcripts') = Len(transcripts) + 1 =>
             /\ ev'.k = "onmessage" /\ ev'.m.turnComplete
             /\ transcripts'[Len(transcripts')].text = currentTextRef \o ev'.m.text]_vars

C8_Witness ==
    /\ attempts = 2 /\ ev.k = "userStart"
    /\ Len(transcripts) = 2
    /\ transcripts[1].text = <<"a">> /\ transcripts[2].text = <<" ", "a">>

\* ------------------------------------------------------------- practice claims
\* The response is not a complete analysis: its text is empty, is not JSON, or
\* is an object without one of the three fields.
Malformed(resp) ==
    \/ resp.kind \in {"empty", "invalidJson"}
    \/ resp.kind = "jsonObject" /\ resp.fields # Fields

\* C13: when the analysis response is empty, is not JSON or lacks a field, the
\* handler raises an alert, leaves the analysis null and resets isAnalyzing.
C13_MalformedAnalysisFails ==
    [][(ev'.k = "analyzeReturned" /\ Malformed(ev'.m)) =>
          /\ alerts' = alerts + 1
          /\ analysis' = NoAnalysis
          /\ ~isAnalyzing']_vars

\* The step is a failure of speech synthesis: the request rejected, or the
\* audio it returned could not be decoded.
SpeakFailureStep ==
    \/ ev'.k = "speakReturned" /\ ev'.m = "rejected"
    \/ ev'.k = "speakDecoded" /\ ev'.m = "oddAudio"

SpeakNoAudioStep == ev'.k = "speakReturned" /\ ev'.m = "noAudio"

\* C14 as stated: when the synthesis request fails or its response carries no
\* audio, an alert is raised and isSpeaking is reset.
C14_SpeakFailureAlerts ==
    [][(SpeakFailureStep \/ SpeakNoAudioStep) =>
          (alerts' = alerts + 1 /\ ~isSpeaking')]_vars

\* C14 amended: when the synthesis request fails, an alert is raised and
\* isSpeaking is reset; when the response carries no audio, isSpeaking is reset
\* and no alert is raised.
C14_SpeakFailureResets ==
    /\ [][SpeakFailureStep => (alerts' = alerts + 1 /\ ~isSpeaking')]_vars
    /\ [][SpeakNoAudioStep => (alerts' = alerts /\ ~isSpeaking')]_vars

\* a rejected request, then a response without audio
C14_Witness ==
    /\ ev.k = "speakReturned" /\ ev.m = "noAudio"
    /\ Len(speaks) = 2 /\ speaks[1].phase = "failed" /\ speaks[2].phase = "done"
    /\ alerts = 1 /\ ~isSpeaking

SpeaksInProgress ==
    {i \in 1..Len(speaks) : speaks[i].phase \in {"requesting", "decoding", "playing"}}

\* C15: at most one synthesis is between its request and the end of its
\* playback, isSpeaking is set for as long as it is, and a handleSpeak call
\* made meanwhile is rejected and issues no request.
C15_OneSpeakAtATime ==
    /\ [](Cardinality(SpeaksInProgress) <= 1 /\ (SpeaksInProgress # {} => isSpeaking))
    /\ [][(ev'.k \in {"speakAccepted", "speakRejected"} /\ SpeaksInProgress # {}) =>
            (ev'.k = "speakRejected" /\ speaks' = speaks)]_vars

C15_Witness ==
    /\ ev.k = "speakRejected" /\ isSpeaking
    /\ Len(speaks) = 2 /\ speaks[1].phase = "done" /\ speaks[2].phase = "playing"

\* ------------------------------------------------------------- settings claims
\* the item a write of settings s would leave in localStorage
StoredRecord(s) ==
    [kind |-> "object", theme |-> s.theme, volume |-> NumberField(s.volume),
     playbackRate |-> NumberField(s.playbackRate)]

\* C16: every change of the settings is written to the stored record: after a
\* step that changes the settings the record holds the new settings.
C16_SettingsPersisted ==
    [][(settings # NoSettings /\ settings' # settings) =>
          localStorage' = StoredRecord(settings')]_vars

SystemTheme == IF prefersDarkMode THEN "dark" ELSE "light"

WellFormed(item) ==
    /\ item.kind = "object"
    /\ item.theme \in {"light", "dark"}
    /\ item.volume.type = "number"
    /\ item.playbackRate.type = "number"

\* C17: the settings App starts with are the stored theme, volume and playback
\* rate when the stored record is well-formed; their theme is the system
\* preference when the record is absent, unparseable or without a valid theme;
\* and their theme is light or dark in every case.
C17_InitialSettings ==
    ev.k = "appStart" =>
        /\ settings.theme \in {"light", "dark"}
        /\ WellFormed(localStorage) =>
              settings = [theme |-> localStorage.theme, volume |-> localStorage.volume.v,
                          playbackRate |-> localStorage.playbackRate.v]
        /\ (localStorage.kind # "object" \/ localStorage.theme \notin {"light", "dark"}) =>
              settings.theme = SystemTheme

\* ---------------------------------------------------------------- codec claims
Abs(x) == IF x >= 0 THEN x ELSE -x

\* C18: a sample array with every value in [-1, 1], both ends included, comes
\* back from createBlob, decode and decodeAudioData (one channel) with the same
\* number of samples, in the same order, each within 1/32768 of the sample given.
C18_RoundTrip ==
    codec.pc = "done" =>
        /\ Len(codec.channelData) = Len(codec.data)
        /\ \A i \in 1..Len(codec.data) :
              Abs(codec.channelData[i] - codec.data[i]) <= Resolution

\* -------------------------------------------------------------- review claims
\* the analysis requests sent and not yet answered
AnalysesInFlight == {i \in 1..Len(analyses) : analyses[i] = "requesting"}

\* C21: at most one analysis request is in flight, and isAnalyzing is set for
\* as long as it is; a click on Review while one is in flight sends nothing
\* and leaves the request in flight and the displayed state as they were
C21_OneAnalysisAtATime ==
    /\ [](Cardinality(AnalysesInFlight) <= 1 /\ (AnalysesInFlight # {} <=> isAnalyzing))
    /\ [][(ev'.k \in {"handleAnalyze", "reviewIgnored"} /\ AnalysesInFlight # {}) =>
            (ev'.k = "reviewIgnored" /\ analyses' = analyses
             /\ isAnalyzing' /\ analysis' = analysis)]_vars

C21_Witness ==
    /\ ev.k = "reviewIgnored" /\ isAnalyzing /\ Trim(textToSpeak) # <<>>
    /\ Len(analyses) = 2 /\ analyses[1] = "done" /\ analyses[2] = "requesting"

\* ------------------------------------------------------------- restart claims
\* the resources that exist or have a promise standing for them
InUse == live.session \cup live.mic \cup live.processor \cup live.inputCtx \cup live.outputCtx

\* C22: a stop that runs to its end leaves the five cells null; a start sets
\* the cursor to 0 and empties the utterance buffer, finds the five cells null,
\* and stores a stream, two contexts and a session promise that did not exist
\* before; the session opens with the cursor still 0 and the buffer empty
C22_RestartIsFresh ==
    [][/\ ev'.k = "stopResume" => RefsNull'
       /\ ev'.k = "userStart" =>
             (RefsNull /\ nextStartTimeRef' = 0 /\ currentTextRef' = <<>>
              /\ interimTranscript' = <<>>)
       /\ ev'.k = "micGranted" =>
             (/\ RefsNull
              /\ sessionPromiseRef' \notin InUse
              /\ promiseState[sessionPromiseRef'] = "none"
              /\ microphoneStreamRef' = sessionPromiseRef'
              /\ inputAudioContextRef' = sessionPromiseRef'
              /\ outputAudioContextRef' = sessionPromiseRef'
              /\ InUse' = InUse \cup {sessionPromiseRef'})
       /\ ev'.k = "onopen" =>
             (nextStartTimeRef' = 0 /\ currentTextRef' = <<>>
              /\ scriptProcessorRef' \notin live.processor)]_vars

\* the second session opens after the first one played a chunk and was stopped
C22_Witness ==
    /\ ev.k = "onopen" /\ attempts = 2 /\ sessionPromiseRef = 2
    /\ live.outputCtx = {2} /\ live.mic = {2}
    /\ Len(nodes) = 1 /\ nodes[1].ctx = 1 /\ nodes[1].end > 0
    /\ nextStartTimeRef = 0 /\ stopRun # NoStopRun

\* ---------------------------------------------------------- active-set claims
\* the chunks started whose node has neither played to its end nor been stopped
Sounding == {n \in 1..Len(nodes) : nodes[n].state = "playing"}

\* C23: the active-playback set holds exactly the chunks that were started and
\* have neither ended nor been stopped, and every node in it belongs to an
\* output context that is still open
C23_ActiveSetExact ==
    /\ audioSourcesRef = Sounding
    /\ \A n \in audioSourcesRef : nodes[n].ctx \in live.outputCtx

\* ------------------------------------------------------- playback-order claims
RemoveAt(q, i) == SubSeq(q, 1, i - 1) \o SubSeq(q, i + 1, Len(q))

\* C24: with any number of handlers suspended at the decode, the one whose chunk
\* is started next is the one whose message arrived first: the k-th audio
\* message received becomes the k-th chunk started, with its own duration
C24_ArrivalOrder ==
    [][ev'.k = "decodeResume" =>
         \E i \in Decodes :
            /\ microtasks' = RemoveAt(microtasks, i)
            /\ \A j \in Decodes : microtasks[i].n <= microtasks[j].n
            /\ Len(nodes') = microtasks[i].n
            /\ nodes'[Len(nodes')].ctx = microtasks[i].s
            /\ microtasks[i].m.interrupted
                  \/ schedule'[Len(schedule')].dur = microtasks[i].m.audio]_vars

\* the first chunk is started while the handler of a second message, with
\* another duration, waits at the decode
C24_Witness ==
    /\ ev.k = "decodeResume" /\ Len(nodes) = 1
    /\ \E i \in Decodes : microtasks[i].n = 2 /\ microtasks[i].m.audio # ev.m.audio

\* --------------------------------------------------------- failed-start claims
\* C25: a start whose handshake is rejected ends in Idle by itself: once every
\* handler has run to its end, the stream and the contexts of that attempt are
\* released, its promise is no longer stored and, if no later start was made,
\* isSessionActive is false
C25_FailedStartGoesIdle ==
    \A s \in Attempts :
        (promiseState[s] = "rejected" /\ Quiescent) =>
            /\ s \notin (live.mic \cup live.inputCtx \cup live.outputCtx)
            /\ sessionPromiseRef # s
            /\ attempts = s => ~isSessionActive

Stored(lo, hi) == IF lo + 256 * hi >= 32768 THEN lo + 256 * hi - 65536 ELSE lo + 256 * hi

\* C27: createBlob writes two bytes a sample; a sample whose truncated product
\* with 32768 lies in the 16-bit range is stored as that product, and one whose
\* product lies outside is stored as the product plus or minus a multiple of
\* 65536, not as the nearest end of the range
C27_WrapsNotClamps ==
    codec.pc \in {"decoded", "done"} =>
        /\ Len(codec.bytes) = 2 * Len(codec.data)
        /\ \A i \in 1..Len(codec.data) :
              LET product == Trunc(codec.data[i], Resolution)
                  stored == Stored(codec.bytes[2 * i - 1], codec.bytes[2 * i])
              IN IF product \in -32768..32767
                 THEN stored = product
                 ELSE \E k \in {-2, -1, 1, 2} : stored = product + k * 65536

\* the sample 1.0 is stored as -32768 and a small negative sample as -1
C27_Witness ==
    /\ codec.pc = "decoded"
    /\ codec.data = <<Unit, -(Resolution + 1)>>
    /\ codec.bytes = <<0, 128, 255, 255>>

\* ---------------------------------------------------------- interrupt claims
\* C28: once an interrupt has been processed, no chunk received before it is
\* playing: the active set is empty after the message that carries the
\* interrupt, and it is still empty when the next thing to run is the
\* continuation of a handler that was waiting at the decode when the interrupt
\* came
C28_InterruptCoversPending ==
    [][/\ (ev'.k = "onmessage" /\ ev'.m.interrupted /\ ev'.m.audio = NoAudio) =>
             audioSourcesRef' = {}
       /\ (/\ ev.k = "onmessage" /\ ev.m.interrupted /\ ev.m.audio = NoAudio
           /\ ev'.k = "decodeResume") => audioSourcesRef' = {}]_vars

\* ------------------------------------------------------ released-context claims
\* C29: a session callback finds the context it uses in place and open: onopen
\* the input context, an audio message the output context, and the
\* continuation that starts a chunk the output context its handler read before
\* the decode
C29_CallbacksUseOpenContexts ==
    [][/\ ev'.k \notin {"onopenThrew", "onmessageThrew"}
       /\ ev'.k = "onopen" => inputAudioContextRef \in live.inputCtx
       /\ (ev'.k = "onmessage" /\ ev'.m.audio # NoAudio) =>
             outputAudioContextRef \in live.outputCtx
       /\ ev'.k = "decodeResume" => nodes'[Len(nodes')].ctx \in live.outputCtx]_vars

\* ------------------------------------------------------------------ idle claims
\* no start is waiting for the microphone and no stop is waiting or ready
NothingInProgress == micPending = {} /\ awaiting = <<>> /\ microtasks = <<>>

\* C30: whenever isSessionActive is false and neither a start nor a stop is in
\* progress, the five cells are null and no microphone stream is live
C30_IdleHoldsNothing ==
    (~isSessionActive /\ NothingInProgress) => (RefsNull /\ live.mic = {})

\* ------------------------------------------------------------ stale-result claims
\* C31: the analysis displayed belongs to the current draft: a change of the
\* draft clears it, and when the draft was changed while a request was under
\* way and the next thing to happen is that request's response, no analysis is
\* displayed after it
C31_ResultBelongsToDraft ==
    [][/\ ev'.k = "setText" => analysis' = NoAnalysis
       /\ (ev.k = "setText" /\ AnalysesInFlight # {} /\ ev'.k = "analyzeReturned") =>
             analysis' = NoAnalysis]_vars
====
